---- MODULE Spec2Model ----
(***************************************************************************)
(* Model of the cir front end (src/src/main.rs): the lexer, the            *)
(* recursive-descent parser and the include-resolving interpreter.         *)
(*                                                                         *)
(* Text is a sequence of one-character strings; a token is a record        *)
(* [kind, value] whose value is such a sequence; AST nodes are records     *)
(* tagged by "kind".                                                       *)
(***************************************************************************)
EXTENDS Integers, Sequences, FiniteSets, TLC

VARIABLES
    stream,      \* Lexer.stream: the characters not yet lexed
    lex_tokens,  \* Lexer.tokens: the tokens pushed so far
    lpc,         \* position of Lexer::lex: "lex", "returned", "panic"
    input,       \* the token vector Parser::new was given (history)
    tokens,      \* Parser.tokens: the tokens not yet consumed
    past,        \* Parser.ast.body: the nodes pushed so far
    spans,       \* the tokens each node of past was parsed from (history)
    pc,          \* position of Parser::parse: "parse", "returned", "exit", "panic"
    err,         \* the diagnostic of the fatal error, "" when none
    result,      \* the AST Parser::parse returned, <<>> when none
    given,       \* the AST Interpreter::new was given (history)
    ast,         \* Interpreter.ast.body
    env,         \* Interpreter.env.functions
    ipc,         \* position of Interpreter::eval: "eval", "returned"
    removed      \* the nodes AST::next handed to eval, in order (history)

lexvars == <<stream, lex_tokens, lpc>>
parvars == <<input, tokens, past, spans, pc, err, result>>
intvars == <<given, ast, env, ipc, removed>>
vars == <<stream, lex_tokens, lpc, input, tokens, past, spans, pc, err, result,
          given, ast, env, ipc, removed>>

-----------------------------------------------------------------------------
(* Bounds *)

MaxSrc == 5        \* length of the source texts given to the lexer
MaxToks == 4       \* length of the unconstrained token sequences
MaxTail == 3       \* length of what follows `int f (` + one token
MaxPath == 3       \* tokens between `<` and `>`
MaxArgs == 5       \* tokens after `foo (`
MaxStmts == 2      \* statements in a generated function body
MaxNodes == 4      \* top-level nodes of the ASTs given to the interpreter

-----------------------------------------------------------------------------
(* Characters *)

\* The characters of the model: the lower-case letters, the digits and the
\* white space of ASCII; every other character is in none of the classes.
Quote == "\""
Letters == {"a", "b", "c", "d", "e", "f", "g", "h", "i", "j", "k", "l", "m",
            "n", "o", "p", "q", "r", "s", "t", "u", "v", "w", "x", "y", "z"}
Digits == {"0", "1", "2", "3", "4", "5", "6", "7", "8", "9"}
Spaces == {" ", "\n", "\t"}

is_alphabetic(c) == c \in Letters
is_numeric(c) == c \in Digits
is_whitespace(c) == c \in Spaces

DigitVal(c) ==
    CASE c = "0" -> 0 [] c = "1" -> 1 [] c = "2" -> 2 [] c = "3" -> 3
      [] c = "4" -> 4 [] c = "5" -> 5 [] c = "6" -> 6 [] c = "7" -> 7
      [] c = "8" -> 8 [] c = "9" -> 9

I32_MAX == 2147483647

\* The texts the program compares against or builds.
S_int == <<"i", "n", "t">>
S_void == <<"v", "o", "i", "d">>
S_return == <<"r", "e", "t", "u", "r", "n">>
S_include == <<"i", "n", "c", "l", "u", "d", "e">>
S_define == <<"d", "e", "f", "i", "n", "e">>
S_libc == <<"l", "i", "b", "c">>
S_printf == <<"p", "r", "i", "n", "t", "f">>
S_stdio_h == <<"s", "t", "d", "i", "o", ".", "h">>

SubSeqFrom(s, i) == SubSeq(s, i, Len(s))

IsSuffix(s, t) ==
    /\ Len(s) <= Len(t)
    /\ s = SubSeq(t, Len(t) - Len(s) + 1, Len(t))

-----------------------------------------------------------------------------
(* types::Token and lexer::SINGLE_CHAR_TOKENS *)

Token(kind, value) == [kind |-> kind, value |-> value]

SINGLE_CHAR_TOKENS == <<
    [kind |-> "OpenPar", value |-> "("],
    [kind |-> "ClosPar", value |-> ")"],
    [kind |-> "OpenBlk", value |-> "{"],
    [kind |-> "ClosBlk", value |-> "}"],
    [kind |-> "Colon", value |-> ":"],
    [kind |-> "Comma", value |-> ","],
    [kind |-> "Semicolon", value |-> ";"],
    [kind |-> "Equal", value |-> "="],
    [kind |-> "PluSymb", value |-> "+"],
    [kind |-> "MinSymb", value |-> "-"],
    [kind |-> "MulSymb", value |-> "*"],
    [kind |-> "DivSymb", value |-> "/"],
    [kind |-> "Dot", value |-> "."],
    [kind |-> "Hash", value |-> "#"],
    [kind |-> "LessThan", value |-> "<"],
    [kind |-> "GraThan", value |-> ">"] >>

-----------------------------------------------------------------------------
(* lexer::Lexer *)

\* Lexer::trim_left: the stream without its leading whitespace.
RECURSIVE trim_left(_)
trim_left(s) ==
    IF s # <<>> /\ is_whitespace(s[1]) THEN trim_left(Tail(s)) ELSE s

\* Lexer::chop(n): buf = stream[0..n], stream = stream[n..]; the slice
\* index panics when n exceeds the length of the stream.
chop(s, n) ==
    IF n > Len(s)
    THEN [ok |-> FALSE, buf |-> <<>>, rest |-> s]
    ELSE [ok |-> TRUE, buf |-> SubSeq(s, 1, n), rest |-> SubSeqFrom(s, n + 1)]

\* The closures Lexer::lex gives to chop_while, by name.
predicate(p, c) ==
    CASE p = "is_alphabetic" -> is_alphabetic(c)
      [] p = "is_numeric" -> is_numeric(c)
      [] p = "not_quote" -> c # Quote

\* The n that the loop of Lexer::chop_while stops at.
RECURSIVE chop_count(_, _, _)
chop_count(s, p, n) ==
    IF n < Len(s) /\ predicate(p, s[n + 1]) THEN chop_count(s, p, n + 1)
    ELSE n

chop_while(s, p) == chop(s, chop_count(s, p, 0))

\* The index of the first entry of SINGLE_CHAR_TOKENS whose value is c, 0 when
\* there is none (the `for` of Lexer::extr_sgl_char_tkn).
sgl_char_index(c) ==
    IF \E i \in 1..Len(SINGLE_CHAR_TOKENS) : SINGLE_CHAR_TOKENS[i].value = c
    THEN CHOOSE i \in 1..Len(SINGLE_CHAR_TOKENS) :
            /\ SINGLE_CHAR_TOKENS[i].value = c
            /\ \A j \in 1..(i - 1) : SINGLE_CHAR_TOKENS[j].value # c
    ELSE 0

push_token(toks, lexeme) == Append(toks, lexeme)

\* One iteration of the loop of Lexer::lex, by the branch it takes.  Every
\* iteration starts with trim_left.

\* `if self.stream.is_empty() { break; }` and the return of the tokens.
LexBreak ==
    /\ lpc = "lex"
    /\ trim_left(stream) = <<>>
    /\ stream' = <<>>
    /\ lpc' = "returned"
    /\ UNCHANGED lex_tokens

LexStrLit ==
    /\ lpc = "lex"
    /\ LET s == trim_left(stream) IN
        /\ s # <<>>
        /\ is_alphabetic(s[1])
        /\ LET c == chop_while(s, "is_alphabetic") IN
            /\ stream' = c.rest
            /\ lex_tokens' = push_token(lex_tokens, Token("StrLit", c.buf))
    /\ UNCHANGED lpc

LexNumeric ==
    /\ lpc = "lex"
    /\ LET s == trim_left(stream) IN
        /\ s # <<>>
        /\ ~is_alphabetic(s[1])
        /\ is_numeric(s[1])
        /\ LET c == chop_while(s, "is_numeric") IN
            /\ stream' = c.rest
            /\ lex_tokens' = push_token(lex_tokens, Token("Numeric", c.buf))
    /\ UNCHANGED lpc

LexStrVal ==
    /\ lpc = "lex"
    /\ LET s == trim_left(stream) IN
        /\ s # <<>>
        /\ ~is_alphabetic(s[1])
        /\ ~is_numeric(s[1])
        /\ s[1] = Quote
        /\ LET open == chop(s, 1)
               body == chop_while(open.rest, "not_quote")
               close == chop(body.rest, 1)
           IN  IF close.ok
               THEN /\ stream' = close.rest
                    /\ lex_tokens' = push_token(lex_tokens,
                                                Token("StrVal", body.buf))
                    /\ UNCHANGED lpc
               ELSE /\ stream' = body.rest
                    /\ lpc' = "panic"
                    /\ UNCHANGED lex_tokens

LexSglChar ==
    /\ lpc = "lex"
    /\ LET s == trim_left(stream) IN
        /\ s # <<>>
        /\ ~is_alphabetic(s[1])
        /\ ~is_numeric(s[1])
        /\ s[1] # Quote
        /\ sgl_char_index(s[1]) # 0
        /\ LET c == chop(s, 1) IN
            /\ stream' = c.rest
            /\ lex_tokens' = push_token(lex_tokens,
                  Token(SINGLE_CHAR_TOKENS[sgl_char_index(s[1])].kind, c.buf))
    /\ UNCHANGED lpc

\* No branch matched: the character is reported and dropped.
LexUnknown ==
    /\ lpc = "lex"
    /\ LET s == trim_left(stream) IN
        /\ s # <<>>
        /\ ~is_alphabetic(s[1])
        /\ ~is_numeric(s[1])
        /\ s[1] # Quote
        /\ sgl_char_index(s[1]) = 0
        /\ stream' = chop(s, 1).rest
    /\ UNCHANGED <<lex_tokens, lpc>>

-----------------------------------------------------------------------------
(* ast::ASTNode, types::Type *)

INT == "INT"

Include(path) == [kind |-> "Include", path |-> path]
FuncDecl(name, params, ret_type, body) ==
    [kind |-> "FuncDecl", name |-> name, params |-> params,
     ret_type |-> ret_type, body |-> body]
FunCall(name, args) == [kind |-> "FunCall", name |-> name, args |-> args]
Return(expr) == [kind |-> "Return", expr |-> expr]
StrLit(value) == [kind |-> "StrLit", value |-> value]
StrVal(value) == [kind |-> "StrVal", value |-> value]
IntLit(n) == [kind |-> "IntLit", n |-> n]
Semicolon == [kind |-> "Semicolon"]
EOF == [kind |-> "EOF"]

-----------------------------------------------------------------------------
(* parser::Parser.  Every method is an operator from the remaining tokens  *)
(* to a record: ok says whether it returned, val is what it returned, toks *)
(* the tokens left; a method that ends the process gives how ("exit" for   *)
(* exit(1), "panic" for a panic) and the diagnostic err.                   *)

NoVal == <<>>

Ok(val, toks) ==
    [ok |-> TRUE, how |-> "ok", err |-> "", val |-> val, toks |-> toks]
Exit(msg, toks) ==
    [ok |-> FALSE, how |-> "exit", err |-> msg, val |-> NoVal, toks |-> toks]
Panic(msg, toks) ==
    [ok |-> FALSE, how |-> "panic", err |-> msg, val |-> NoVal, toks |-> toks]

\* eof with the comparison off by one.
eof_mut(toks) == Len(toks) <= 1

eof(toks) == Len(toks) = 0

at(toks) ==
    IF eof(toks) THEN Exit("Unexpected EOF", toks) ELSE Ok(toks[1], toks)

eat(toks) ==
    IF eof(toks) THEN Exit("Unexpected EOF", toks)
    ELSE Ok(Head(toks), Tail(toks))

eat_kind(toks, kind) ==
    LET a == at(toks) IN
    IF ~a.ok THEN a
    ELSE IF a.val.kind # kind THEN Exit("Expected kind", toks)
    ELSE eat(toks)

is_decl(x) == x = S_int

str2type(s, toks) ==
    IF s = S_int THEN Ok(INT, toks) ELSE Exit("Unknown type name", toks)

get_strlit_val(strlit, toks) ==
    IF strlit.kind = "StrLit" THEN Ok(strlit.value, toks)
    ELSE Exit("Expected String Literal", toks)

\* str::parse::<i32> of a digit string: Err (-1 here) on the empty string and
\* on a value above i32::MAX, which `unwrap` turns into a panic.
RECURSIVE parse_i32_from(_, _)
parse_i32_from(s, acc) ==
    IF s = <<>> THEN acc
    ELSE LET d == DigitVal(Head(s)) IN
         IF acc > (I32_MAX - d) \div 10 THEN -1
         ELSE parse_i32_from(Tail(s), acc * 10 + d)

parse_i32(s) == IF s = <<>> THEN -1 ELSE parse_i32_from(s, 0)

parse_prim_expr(toks) ==
    LET a == eat(toks) IN
    IF ~a.ok THEN a
    ELSE CASE a.val.kind = "StrLit" -> Ok(StrLit(a.val.value), a.toks)
           [] a.val.kind = "StrVal" -> Ok(StrVal(a.val.value), a.toks)
           [] a.val.kind = "Numeric" ->
                IF parse_i32(a.val.value) < 0
                THEN Panic("called Result::unwrap() on an Err value", a.toks)
                ELSE Ok(IntLit(parse_i32(a.val.value)), a.toks)
           [] a.val.kind = "Semicolon" -> Ok(Semicolon, a.toks)
           [] OTHER -> Exit("Unsupported primary expression", a.toks)

parse_deretive_define(toks) == Panic("not yet implemented", toks)

\* include_path putting each token text before the path instead of after it.
RECURSIVE include_path_mut(_, _)
include_path_mut(toks, filepath) ==
    LET a == at(toks) IN
    IF ~a.ok THEN a
    ELSE IF a.val.kind # "GraThan"
    THEN LET x == eat(toks) IN
         IF x.val.kind \in {"StrLit", "DivSymb", "Dot"}
         THEN include_path_mut(x.toks, x.val.value \o filepath)
         ELSE Exit("Invalid file path", x.toks)
    ELSE Ok(filepath, toks)

\* The `while self.at().kind != TK::GraThan` loop of parse_deretive_include.
RECURSIVE include_path(_, _)
include_path(toks, filepath) ==
    LET a == at(toks) IN
    IF ~a.ok THEN a
    ELSE IF a.val.kind # "GraThan"
    THEN LET x == eat(toks) IN
         IF x.val.kind \in {"StrLit", "DivSymb", "Dot"}
         THEN include_path(x.toks, filepath \o x.val.value)
         ELSE Exit("Invalid file path", x.toks)
    ELSE Ok(filepath, toks)

parse_deretive_include(toks) ==
    LET a == eat(toks) IN
    IF ~a.ok THEN a
    ELSE CASE a.val.kind = "LessThan" ->
                LET p == include_path(a.toks, <<>>) IN
                IF ~p.ok THEN p
                ELSE LET g == eat_kind(p.toks, "GraThan") IN
                     IF ~g.ok THEN g ELSE Ok(Include(p.val), g.toks)
           [] a.val.kind = "StrVal" -> Ok(Include(a.val.value), a.toks)
           [] OTHER -> Exit("Invalid preprocessing", a.toks)

parse_deretive(toks) ==
    LET a == eat_kind(toks, "StrLit") IN
    IF ~a.ok THEN a
    ELSE CASE a.val.value = S_include -> parse_deretive_include(a.toks)
           [] a.val.value = S_define -> parse_deretive_define(a.toks)
           [] OTHER -> Exit("Invalid preprocessing", a.toks)

parse_decl_func_params(toks) ==
    LET a == eat(toks) IN
    IF ~a.ok THEN a
    ELSE CASE a.val.value = S_void ->
                LET c == eat_kind(a.toks, "ClosPar") IN
                IF ~c.ok THEN c ELSE Ok(<<>>, c.toks)
           [] a.val.value = <<")">> -> Ok(<<>>, a.toks)
           [] OTHER -> Exit("Function params not supported yet", a.toks)

RECURSIVE parse_stmt(_)
RECURSIVE parse_expr(_)
RECURSIVE func_call_args(_, _)
RECURSIVE decl_func_body(_, _)

\* func_call_args inserting each argument at the front of the vector.
RECURSIVE func_call_args_mut(_, _)
func_call_args_mut(toks, args) ==
    LET a == at(toks) IN
    IF ~a.ok THEN a
    ELSE IF a.val.kind # "ClosPar"
    THEN LET e == parse_expr(toks) IN
         IF ~e.ok THEN e
         ELSE func_call_args_mut(e.toks, <<e.val>> \o args)
    ELSE Ok(args, toks)

\* The `while self.at().kind != TK::ClosPar` loop of parse_func_call.
func_call_args(toks, args) ==
    LET a == at(toks) IN
    IF ~a.ok THEN a
    ELSE IF a.val.kind # "ClosPar"
    THEN LET e == parse_expr(toks) IN
         IF ~e.ok THEN e ELSE func_call_args(e.toks, Append(args, e.val))
    ELSE Ok(args, toks)

\* parse_func_call looking for `(` only when a token is left.
parse_func_call_mut(toks) ==
    LET func == parse_prim_expr(toks) IN
    IF ~func.ok THEN func
    ELSE IF ~eof(func.toks) /\ func.toks[1].kind = "OpenPar"
    THEN LET args == func_call_args(eat(func.toks).toks, <<>>) IN
         IF ~args.ok THEN args
         ELSE LET c == eat_kind(args.toks, "ClosPar") IN
              IF ~c.ok THEN c
              ELSE LET name == get_strlit_val(func.val, c.toks) IN
                   IF ~name.ok THEN name
                   ELSE Ok(FunCall(name.val, args.val), c.toks)
    ELSE Ok(func.val, func.toks)

parse_func_call(toks) ==
    LET func == parse_prim_expr(toks) IN
    IF ~func.ok THEN func
    ELSE LET a == at(func.toks) IN
         IF ~a.ok THEN a
         ELSE IF a.val.kind = "OpenPar"
         THEN LET args == func_call_args(eat(func.toks).toks, <<>>) IN
              IF ~args.ok THEN args
              ELSE LET c == eat_kind(args.toks, "ClosPar") IN
                   IF ~c.ok THEN c
                   ELSE LET name == get_strlit_val(func.val, c.toks) IN
                        IF ~name.ok THEN name
                        ELSE Ok(FunCall(name.val, args.val), c.toks)
         ELSE Ok(func.val, func.toks)

parse_expr(toks) == parse_func_call(toks)

parse_return(toks) ==
    LET e == parse_expr(toks) IN
    IF ~e.ok THEN e ELSE Ok(Return(e.val), e.toks)

\* The `while self.at().kind != TK::ClosBlk` loop of parse_decl_func.
decl_func_body(toks, body) ==
    LET a == at(toks) IN
    IF ~a.ok THEN a
    ELSE IF a.val.kind # "ClosBlk"
    THEN LET s == parse_stmt(toks) IN
         IF ~s.ok THEN s ELSE decl_func_body(s.toks, Append(body, s.val))
    ELSE Ok(body, toks)

parse_decl_func(toks, ret_type, name) ==
    LET params == parse_decl_func_params(toks) IN
    IF ~params.ok THEN params
    ELSE LET o == eat_kind(params.toks, "OpenBlk") IN
         IF ~o.ok THEN o
         ELSE LET body == decl_func_body(o.toks, <<>>) IN
              IF ~body.ok THEN body
              ELSE LET c == eat_kind(body.toks, "ClosBlk") IN
                   IF ~c.ok THEN c
                   ELSE Ok(FuncDecl(name, params.val, ret_type, body.val),
                           c.toks)

parse_decl(toks, prev_tok) ==
    LET a == eat_kind(toks, "StrLit") IN
    IF ~a.ok THEN a
    ELSE LET e == eat(a.toks) IN
         IF ~e.ok THEN e
         ELSE IF e.val.kind = "OpenPar"
         THEN LET t == str2type(prev_tok.value, e.toks) IN
              IF ~t.ok THEN t ELSE parse_decl_func(e.toks, t.val, a.val.value)
         ELSE Exit("Expected function declaration for now", e.toks)

parse_stmt(toks) ==
    LET a == at(toks) IN
    IF ~a.ok THEN a
    ELSE IF a.val.kind = "Hash" THEN parse_deretive(eat(toks).toks)
    ELSE IF a.val.kind = "StrLit" /\ is_decl(a.val.value)
    THEN parse_decl(eat(toks).toks, a.val)
    ELSE IF a.val.value = S_return THEN parse_return(eat(toks).toks)
    ELSE parse_expr(toks)

\* One iteration of the `while !self.eof()` loop of Parser::parse whose
\* statement parses: the node is pushed on the AST.
ParseStmt ==
    /\ pc = "parse"
    /\ ~eof(tokens)
    /\ LET node == parse_stmt(tokens) IN
        /\ node.ok
        /\ tokens' = node.toks
        /\ past' = Append(past, node.val)
        /\ spans' = Append(spans,
                           SubSeq(tokens, 1, Len(tokens) - Len(node.toks)))
    /\ UNCHANGED <<input, pc, err, result>>

\* An iteration whose statement ends the process: nothing is returned.
ParseFatal ==
    /\ pc = "parse"
    /\ ~eof(tokens)
    /\ LET node == parse_stmt(tokens) IN
        /\ ~node.ok
        /\ tokens' = node.toks
        /\ pc' = node.how
        /\ err' = node.err
    /\ UNCHANGED <<input, past, spans, result>>

\* The loop is over: EOF is pushed and a clone of the AST returned.
ParseReturn ==
    /\ pc = "parse"
    /\ eof(tokens)
    /\ past' = Append(past, EOF)
    /\ result' = past'
    /\ pc' = "returned"
    /\ UNCHANGED <<input, tokens, spans, err>>

-----------------------------------------------------------------------------
(* libc::LibC, libc::Stdio *)

LibC_filepaths == <<S_stdio_h>>
Stdio_funcnames == <<S_printf>>

contains(v, x) == \E i \in 1..Len(v) : v[i] = x

-----------------------------------------------------------------------------
(* runtime::Env, runtime::Interpreter *)

Function(name, location) == [name |-> name, location |-> location]

push_function(functions, function) == Append(functions, function)

\* location_of without the separator.
location_of_mut(func) == S_libc \o func

\* format!("{}/{}", "libc", func)
location_of(func) == S_libc \o <<"/">> \o func

\* The `for func in &self.libc.stdio.funcnames` loop, from index i on.
RECURSIVE push_funcnames(_, _)
push_funcnames(functions, i) ==
    IF i > Len(Stdio_funcnames) THEN functions
    ELSE push_funcnames(
            push_function(functions,
                Function(Stdio_funcnames[i], location_of(Stdio_funcnames[i]))),
            i + 1)

eval_node_include(functions, filepath) ==
    IF ~contains(LibC_filepaths, filepath) THEN functions
    ELSE push_funcnames(functions, 1)

\* eval_node_stmt evaluating the includes in the body of a FuncDecl too.
eval_node_stmt_mut(functions, node) ==
    IF node.kind = "Include" THEN eval_node_include(functions, node.path)
    ELSE IF node.kind = "FuncDecl"
              /\ \E i \in 1..Len(node.body) : node.body[i].kind = "Include"
    THEN eval_node_include(functions, S_stdio_h)
    ELSE functions

eval_node_stmt(functions, node) ==
    IF node.kind = "Include" THEN eval_node_include(functions, node.path)
    ELSE functions

\* One iteration of the loop of Interpreter::eval: AST::next removes the
\* first node and eval_node_stmt evaluates it.
EvalNode ==
    /\ ipc = "eval"
    /\ ast # <<>>
    /\ ast' = Tail(ast)
    /\ removed' = Append(removed, Head(ast))
    /\ env' = eval_node_stmt(env, Head(ast))
    /\ UNCHANGED <<given, ipc>>

\* AST::next gave None: the loop breaks, the environment is printed.
EvalBreak ==
    /\ ipc = "eval"
    /\ ast = <<>>
    /\ ipc' = "returned"
    /\ UNCHANGED <<given, ast, env, removed>>

-----------------------------------------------------------------------------
(* Inputs *)

SeqsUpTo(S, n) == UNION {[1..k -> S] : k \in 0..n}

\* Source texts: every class of character Lexer::lex tells apart.
SrcChars == {"a", "7", " ", Quote, "(", "@"}
Sources == SeqsUpTo(SrcChars, MaxSrc)


\* Tokens, as Lexer::lex produces them.
T_hash == Token("Hash", <<"#">>)
T_lt == Token("LessThan", <<"<">>)
T_gt == Token("GraThan", <<">">>)
T_dot == Token("Dot", <<".">>)
T_div == Token("DivSymb", <<"/">>)
T_op == Token("OpenPar", <<"(">>)
T_cp == Token("ClosPar", <<")">>)
T_ob == Token("OpenBlk", <<"{">>)
T_cb == Token("ClosBlk", <<"}">>)
T_semi == Token("Semicolon", <<";">>)
T_comma == Token("Comma", <<",">>)
T_equal == Token("Equal", <<"=">>)
T_include == Token("StrLit", S_include)
T_define == Token("StrLit", S_define)
T_int == Token("StrLit", S_int)
T_void == Token("StrLit", S_void)
T_return == Token("StrLit", S_return)
T_stdio == Token("StrLit", <<"s", "t", "d", "i", "o">>)
T_h == Token("StrLit", <<"h">>)
T_f == Token("StrLit", <<"f">>)
T_x == Token("StrLit", <<"x">>)
T_zero == Token("Numeric", <<"0">>)
T_big == Token("Numeric", <<"2", "1", "4", "7", "4", "8", "3", "6", "4", "8">>)
T_str == Token("StrVal", <<"s">>)
T_str_void == Token("StrVal", S_void)
T_str_cp == Token("StrVal", <<")">>)
T_str_return == Token("StrVal", S_return)

AllTokens ==
    {T_hash, T_lt, T_gt, T_dot, T_div, T_op, T_cp, T_ob, T_cb, T_semi, T_comma,
     T_equal, T_include, T_define, T_int, T_void, T_return, T_stdio, T_h, T_f,
     T_x, T_zero, T_big, T_str, T_str_void, T_str_cp, T_str_return}

CoreTokens ==
    {T_hash, T_include, T_str, T_int, T_f, T_op, T_cp, T_ob, T_cb, T_return,
     T_zero, T_semi, T_void, T_gt}

\* Any short token sequence.
FreeInputs == SeqsUpTo(CoreTokens, MaxToks)

\* `int f (`, any token, and a short tail.
DeclInputs ==
    {<<T_int, T_f, T_op, t>> \o r :
        t \in AllTokens, r \in SeqsUpTo({T_cp, T_ob, T_cb, T_semi}, MaxTail)}

\* `# include <`, a few tokens, `>`; and `# include` before any token.
PathTokens ==
    {T_stdio, T_h, T_dot, T_div, T_include, T_zero, T_str, T_semi, T_comma,
     T_lt, T_gt}
IncludeInputs ==
    {<<T_hash, T_include, T_lt>> \o p \o <<T_gt>> :
        p \in SeqsUpTo(PathTokens, MaxPath)}
    \cup {<<T_hash, T_include, t>> \o r :
            t \in AllTokens, r \in SeqsUpTo({T_gt}, 1)}

\* `f (` and a tail of argument tokens; any call target and a short tail.
ArgTokens == {T_x, T_str, T_zero, T_semi, T_comma, T_op, T_cp}
CallInputs ==
    {<<T_f, T_op>> \o r : r \in SeqsUpTo(ArgTokens, MaxArgs)}
    \cup {<<t, T_op>> \o r :
            t \in AllTokens, r \in SeqsUpTo({T_x, T_cp}, 2)}

-----------------------------------------------------------------------------
(* The specifications: each component from its constructor, on any input.  *)

LexerIdle == /\ stream = <<>> /\ lex_tokens = <<>> /\ lpc = "idle"
ParserIdle ==
    /\ input = <<>> /\ tokens = <<>> /\ past = <<>> /\ spans = <<>>
    /\ pc = "idle" /\ err = "" /\ result = <<>>
InterpreterIdle ==
    /\ given = <<>> /\ ast = <<>> /\ env = <<>>
    /\ ipc = "idle" /\ removed = <<>>

\* Lexer::new
InitLex ==
    /\ stream \in Sources
    /\ lex_tokens = <<>>
    /\ lpc = "lex"
    /\ ParserIdle
    /\ InterpreterIdle

NextLex ==
    \/ (LexBreak /\ UNCHANGED <<parvars, intvars>>)
    \/ (LexStrLit /\ UNCHANGED <<parvars, intvars>>)
    \/ (LexNumeric /\ UNCHANGED <<parvars, intvars>>)
    \/ (LexStrVal /\ UNCHANGED <<parvars, intvars>>)
    \/ (LexSglChar /\ UNCHANGED <<parvars, intvars>>)
    \/ (LexUnknown /\ UNCHANGED <<parvars, intvars>>)

SpecLex == InitLex /\ [][NextLex]_vars


\* Statements and the node each one stands for.
Statements == {
    [toks |-> <<T_x>>, node |-> StrLit(<<"x">>)],
    [toks |-> <<T_str>>, node |-> StrVal(<<"s">>)],
    [toks |-> <<T_str_return>>, node |-> StrVal(S_return)],
    [toks |-> <<T_zero>>, node |-> IntLit(0)],
    [toks |-> <<T_semi>>, node |-> Semicolon],
    [toks |-> <<T_return, T_zero>>, node |-> Return(IntLit(0))],
    [toks |-> <<T_return, T_x>>, node |-> Return(StrLit(<<"x">>))],
    [toks |-> <<T_f, T_op, T_cp>>, node |-> FunCall(<<"f">>, <<>>)],
    [toks |-> <<T_f, T_op, T_str, T_x, T_cp>>,
     node |-> FunCall(<<"f">>, <<StrVal(<<"s">>), StrLit(<<"x">>)>>)],
    [toks |-> <<T_return, T_f, T_op, T_zero, T_cp>>,
     node |-> Return(FunCall(<<"f">>, <<IntLit(0)>>))],
    [toks |-> <<T_hash, T_include, T_lt, T_stdio, T_dot, T_h, T_gt>>,
     node |-> Include(S_stdio_h)],
    [toks |-> <<T_hash, T_include, T_str>>, node |-> Include(<<"s">>)],
    [toks |-> <<T_int, T_x, T_op, T_cp, T_ob, T_cb>>,
     node |-> FuncDecl(<<"x">>, <<>>, INT, <<>>)] }

RECURSIVE StmtToks(_)
StmtToks(ss) == IF ss = <<>> THEN <<>> ELSE Head(ss).toks \o StmtToks(Tail(ss))

RECURSIVE StmtNodes(_)
StmtNodes(ss) ==
    IF ss = <<>> THEN <<>> ELSE <<Head(ss).node>> \o StmtNodes(Tail(ss))

\* `int <identifier> ( void ) { s1 ... sn }` and `int <identifier> ( ) { ... }`
\* with the AST each one stands for.
Programs ==
    {[toks |-> <<T_int, id, T_op>> \o params \o <<T_cp, T_ob>>
                 \o StmtToks(ss) \o <<T_cb>>,
      ast |-> <<FuncDecl(id.value, <<>>, INT, StmtNodes(ss)), EOF>>] :
        id \in {T_f, T_void}, params \in {<<>>, <<T_void>>},
        ss \in SeqsUpTo(Statements, MaxStmts)}

BodyInputs == {p.toks : p \in Programs}

TokenInputs ==
    FreeInputs \cup DeclInputs \cup IncludeInputs \cup CallInputs
    \cup BodyInputs

\* Parser::new
InitParse ==
    /\ input \in TokenInputs
    /\ tokens = input
    /\ past = <<>>
    /\ spans = <<>>
    /\ pc = "parse"
    /\ err = ""
    /\ result = <<>>
    /\ LexerIdle
    /\ InterpreterIdle

NextParse ==
    \/ (ParseStmt /\ UNCHANGED <<lexvars, intvars>>)
    \/ (ParseFatal /\ UNCHANGED <<lexvars, intvars>>)
    \/ (ParseReturn /\ UNCHANGED <<lexvars, intvars>>)

SpecParse == InitParse /\ [][NextParse]_vars

\* The top-level nodes an AST is made of.
Nodes ==
    {Include(S_stdio_h), Include(<<"x", ".", "h">>),
     FuncDecl(<<"f">>, <<>>, INT, <<Include(S_stdio_h), Semicolon>>),
     FunCall(S_printf, <<StrVal(<<"s">>)>>), Return(IntLit(0)),
     StrLit(<<"x">>), StrVal(S_stdio_h), IntLit(0), Semicolon, EOF}

ASTInputs == SeqsUpTo(Nodes, MaxNodes)

\* Interpreter::new
InitEval ==
    /\ given \in ASTInputs
    /\ ast = given
    /\ env = <<>>
    /\ ipc = "eval"
    /\ removed = <<>>
    /\ LexerIdle
    /\ ParserIdle

NextEval ==
    \/ (EvalNode /\ UNCHANGED <<lexvars, parvars>>)
    \/ (EvalBreak /\ UNCHANGED <<lexvars, parvars>>)

SpecEval == InitEval /\ [][NextEval]_vars

\* eval is a loop on one thread: it keeps running until it returns.
FairSpecEval == SpecEval /\ WF_vars(NextEval)

-----------------------------------------------------------------------------
(* Properties *)

Last(s) == s[Len(s)]

\* The index of the first token of the kind in s, 0 when there is none.
FirstOfKind(s, kind) ==
    IF \E i \in 1..Len(s) : s[i].kind = kind
    THEN CHOOSE i \in 1..Len(s) :
            /\ s[i].kind = kind
            /\ \A j \in 1..(i - 1) : s[j].kind # kind
    ELSE 0

\* The first iteration of the loop of Parser::parse is over.
FirstStmtDone == past # <<>> \/ pc # "parse"

\* The first statement was fatal, or will be.
FirstStmtFatal == past = <<>> /\ pc \in {"parse", "exit"}

\* C1: Lexer::lex returns a token sequence on every input, an unclosed quote
\* included: it never panics.
C1_LexAlwaysCompletes == lpc # "panic"

\* C2: the tokens `int <identifier> ( void ) { s1 ... sn }` and
\* `int <identifier> ( ) { s1 ... sn }` parse to [FuncDecl, EOF], the FuncDecl
\* named by the identifier, of type INT, without parameters, its body the
\* nodes of s1 .. sn in order.
C2_FuncDeclAst ==
    \A p \in Programs :
        (input = p.toks /\ pc # "parse")
            => (pc = "returned" /\ result = p.ast)

\* The texts of the tokens, one after the other.
RECURSIVE ConcatValues(_)
ConcatValues(p) ==
    IF p = <<>> THEN <<>> ELSE Head(p).value \o ConcatValues(Tail(p))

\* C3: `# include < t1 .. tn >` with every ti an identifier, `/` or `.` parses
\* to the one node Include(t1 .. tn); `# include "s"` to Include(s); a token of
\* another kind before the `>`, or another token after `include`, is fatal.
C3_IncludePath ==
    (Len(input) >= 3 /\ input[1].kind = "Hash" /\ input[2] = T_include) =>
        LET t == input[3]
            rest == SubSeqFrom(input, 4)
            k == FirstOfKind(rest, "GraThan")
            n == IF k > 0 THEN k - 1 ELSE Len(rest)
            inpath == \A i \in 1..n : rest[i].kind \in {"StrLit", "DivSymb", "Dot"}
        IN  CASE t.kind = "LessThan" /\ k > 0 /\ inpath ->
                    FirstStmtDone =>
                        /\ past # <<>>
                        /\ past[1] = Include(ConcatValues(SubSeq(rest, 1, n)))
                        /\ spans[1] = SubSeq(input, 1, k + 3)
              [] t.kind = "LessThan" /\ ~inpath ->
                    /\ FirstStmtFatal
                    /\ pc = "exit" => err = "Invalid file path"
              [] t.kind = "StrVal" ->
                    FirstStmtDone =>
                        /\ past # <<>>
                        /\ past[1] = Include(t.value)
                        /\ spans[1] = SubSeq(input, 1, 3)
              [] t.kind \notin {"LessThan", "StrVal"} ->
                    /\ FirstStmtFatal
                    /\ pc = "exit" => err = "Invalid preprocessing"
              [] OTHER -> FirstStmtFatal

\* `#include <stdio.h>` was parsed.
C3_Witness ==
    /\ pc = "returned"
    /\ input = <<T_hash, T_include, T_lt, T_stdio, T_dot, T_h, T_gt>>
    /\ result = <<Include(S_stdio_h), EOF>>

\* C4: evaluating Include("stdio.h") appends the one entry printf ->
\* "libc/printf" and leaves the entries before it as they were; evaluating an
\* Include of any other path leaves the environment unchanged.
C4_IncludeRegisters ==
    [][(ipc = "eval" /\ ast # <<>> /\ Head(ast).kind = "Include") =>
        IF Head(ast).path = <<"s", "t", "d", "i", "o", ".", "h">>
        THEN env' = env \o
                <<[name |-> <<"p", "r", "i", "n", "t", "f">>,
                   location |-> <<"l", "i", "b", "c", "/",
                                  "p", "r", "i", "n", "t", "f">>]>>
        ELSE env' = env]_vars

\* Two includes of stdio.h and one of an unknown header were evaluated.
C4_Witness ==
    /\ Len(env) = 2
    /\ \E i \in 1..Len(removed) : removed[i] = Include(<<"x", ".", "h">>)

\* C7: after `int <identifier> (` the parser goes on only on the identifier
\* token `void` followed by `)`, or on the token `)`; any other token, of any
\* kind, is fatal.
C7_ParamsVoidOrEmpty ==
    ( /\ Len(input) >= 4
      /\ input[1] = T_int
      /\ input[2].kind = "StrLit"
      /\ input[3].kind = "OpenPar"
      /\ ~(input[4] = T_void /\ Len(input) >= 5 /\ input[5].kind = "ClosPar")
      /\ input[4].kind # "ClosPar" )
    => FirstStmtFatal

\* C9: no two entries of the environment have the same function name.
C9_UniqueNames ==
    \A i, j \in 1..Len(env) : i # j => env[i].name # env[j].name


\* C5: Interpreter::eval removes every top-level node once, front to back,
\* and returns with the AST empty; a node that is not an Include leaves the
\* environment unchanged.
C5_EvalCompletes ==
    /\ [](removed \o ast = given)
    /\ [][ast # <<>> =>
            /\ ast' = Tail(ast)
            /\ removed' = Append(removed, Head(ast))]_vars
    /\ [][(ast # <<>> /\ Head(ast).kind # "Include") => env' = env]_vars
    /\ <>(ipc = "returned" /\ ast = <<>> /\ removed = given)

\* eval returned after a FuncDecl with an include in its body, among other
\* nodes, and registered nothing.
C5_Witness ==
    /\ ipc = "returned"
    /\ Len(removed) >= 3
    /\ \E i \in 1..Len(removed) : removed[i].kind = "FuncDecl"
    /\ env = <<>>

\* C6: the remaining tokens are a suffix of the input and only shrink; an AST
\* is returned only when no token is left, and it holds EOF as its last node
\* and nowhere else; after a fatal error nothing is returned and nothing more
\* happens.
C6_HardFail ==
    /\ [](IsSuffix(tokens, input))
    /\ [][IsSuffix(tokens', tokens)]_vars
    /\ [](pc = "returned" =>
            /\ tokens = <<>>
            /\ result = past
            /\ result # <<>>
            /\ \A i \in 1..Len(result) :
                    (result[i].kind = "EOF") <=> (i = Len(result)))
    /\ [](pc # "returned" => result = <<>>)
    /\ [][pc = "parse"]_vars

\* An AST of two statements and EOF was returned.
C6_Witness ==
    /\ pc = "returned"
    /\ Len(result) >= 3
    /\ Len(input) >= 6

\* The node of a primary expression that is not followed by `(`.
PrimNode(t) ==
    CASE t.kind = "StrLit" -> [kind |-> "StrLit", value |-> t.value]
      [] t.kind = "StrVal" -> [kind |-> "StrVal", value |-> t.value]
      [] t.kind = "Semicolon" -> [kind |-> "Semicolon"]
      [] t = T_zero -> [kind |-> "IntLit", n |-> 0]

IsPrimTok(t) == t.kind \in {"StrLit", "StrVal", "Semicolon"} \/ t = T_zero

RECURSIVE PrimNodes(_)
PrimNodes(ts) ==
    IF ts = <<>> THEN <<>> ELSE <<PrimNode(Head(ts))>> \o PrimNodes(Tail(ts))

AllPrim(ts) == \A i \in 1..Len(ts) : IsPrimTok(ts[i])

IsIdentifier(t) == t.kind = "StrLit" /\ t.value \notin {S_int, S_return}

\* C8: `name ( e1 .. en )` parses to FunCall{name, [e1 .. en]}, the arguments
\* in source order and a nested call among them allowed; a comma in the
\* argument list is fatal; so is a call target that is not an identifier.
C8_FunCall ==
    (Len(input) >= 2 /\ input[2].kind = "OpenPar") =>
        LET rest == SubSeqFrom(input, 3)
            c == FirstOfKind(rest, "ClosPar")
            o == FirstOfKind(rest, "OpenPar")
            after == SubSeqFrom(rest, c + 1)
            c2 == FirstOfKind(after, "ClosPar")
        IN  /\ ( /\ IsIdentifier(input[1])
                 /\ c > 0
                 /\ AllPrim(SubSeq(rest, 1, c - 1)) )
               => (FirstStmtDone =>
                    /\ past # <<>>
                    /\ past[1] = [kind |-> "FunCall", name |-> input[1].value,
                                  args |-> PrimNodes(SubSeq(rest, 1, c - 1))]
                    /\ spans[1] = SubSeq(input, 1, c + 2))
            /\ ( /\ IsIdentifier(input[1])
                 /\ o > 1 /\ c > o /\ c2 > 0
                 /\ AllPrim(SubSeq(rest, 1, o - 1))
                 /\ rest[o - 1].kind = "StrLit"
                 /\ AllPrim(SubSeq(rest, o + 1, c - 1))
                 /\ AllPrim(SubSeq(after, 1, c2 - 1)) )
               => (FirstStmtDone =>
                    /\ past # <<>>
                    /\ past[1] =
                        [kind |-> "FunCall", name |-> input[1].value,
                         args |-> PrimNodes(SubSeq(rest, 1, o - 2))
                            \o <<[kind |-> "FunCall", name |-> rest[o - 1].value,
                                  args |-> PrimNodes(SubSeq(rest, o + 1, c - 1))]>>
                            \o PrimNodes(SubSeq(after, 1, c2 - 1))]
                    /\ spans[1] = SubSeq(input, 1, c + c2 + 2))
            /\ ( /\ IsIdentifier(input[1])
                 /\ \E i \in 1..Len(rest) :
                        /\ rest[i].kind = "Comma"
                        /\ (c = 0 \/ i < c) )
               => (FirstStmtFatal
                   /\ (pc = "exit" => err = "Unsupported primary expression"))
            /\ (past # <<>> /\ past[1].kind = "FunCall")
               => \A i \in 1..Len(spans[1]) : spans[1][i].kind # "Comma"
            /\ input[1].kind \in {"StrVal", "Numeric", "Semicolon"}
               => (past = <<>> /\ pc # "returned")

\* `f ( x x ( ) )` was parsed: two arguments, the second a nested call.
C8_Witness ==
    /\ pc = "returned"
    /\ input = <<T_f, T_op, T_x, T_x, T_op, T_cp, T_cp>>
    /\ result = <<FunCall(<<"f">>,
                    <<StrLit(<<"x">>), FunCall(<<"x">>, <<>>)>>), EOF>>

RECURSIVE TotalLen(_)
TotalLen(ss) == IF ss = <<>> THEN 0 ELSE Len(Head(ss)) + TotalLen(Tail(ss))

\* The tokens left when the statement being parsed was begun.
Pending == SubSeqFrom(input, TotalLen(spans) + 1)

\* The last statement of the input is a primary expression, or `return` and a
\* primary expression, that ends the input.
TrailingPrimary ==
    \/ /\ Len(Pending) = 1
       /\ IsPrimTok(Pending[1])
       /\ Pending[1] # T_int
       /\ Pending[1].value # S_return
    \/ /\ Len(Pending) = 2
       /\ Pending[1].value = S_return
       /\ IsPrimTok(Pending[2])

Closers == {"GraThan", "StrVal", "ClosBlk", "ClosPar"}

\* C10 as claimed: a primary expression that ends the input is a fatal
\* 'Unexpected EOF'; an AST is returned only when the last token closes an
\* include, a declaration or a call, and never when the input ends in a
\* top-level identifier, literal, `;` or `return <expr>`.
C10_Claimed ==
    /\ (pc # "parse" /\ TrailingPrimary)
        => (pc = "exit" /\ err = "Unexpected EOF" /\ result = <<>>)
    /\ (pc = "returned" /\ input # <<>>)
        => /\ Last(input).kind \in Closers
           /\ past[Len(past) - 1].kind \in {"Include", "FuncDecl", "FunCall"}

\* C10 as amended: the same, but an input that ends in a top-level `return`
\* of a call does give an AST.
C10_TrailingPrimaryFatal ==
    /\ (pc # "parse" /\ TrailingPrimary)
        => (pc = "exit" /\ err = "Unexpected EOF" /\ result = <<>>)
    /\ (pc = "returned" /\ input # <<>>)
        => /\ Last(input).kind \in Closers
           /\ LET n == past[Len(past) - 1] IN
                \/ n.kind \in {"Include", "FuncDecl", "FunCall"}
                \/ (n.kind = "Return" /\ n.expr.kind = "FunCall")

\* `f ( ) ;` ended in 'Unexpected EOF' after the call was parsed.
C10_Witness ==
    /\ pc = "exit"
    /\ err = "Unexpected EOF"
    /\ input = <<T_f, T_op, T_cp, T_semi>>
    /\ past = <<FunCall(<<"f">>, <<>>)>>

====
